---------------------------- MODULE Spec2Model ----------------------------
(***************************************************************************)
(* A model of outpainting.py: the OpenAIOutpainting class (load, resize,   *)
(* pad, split, the two edit calls, the two downloads, composite, flatten)  *)
(* and the batch loop of __main__ that drives it over the *.jpg files of a *)
(* folder.                                                                 *)
(*                                                                         *)
(* Images are modelled pixel by pixel: a width, a height, a colour mode    *)
(* and a function from coordinates to pixels.  A pixel records where it    *)
(* comes from (the source photo, the transparent fill, the left or the     *)
(* right generated tile), its coordinates there, and its alpha bit.        *)
(*                                                                         *)
(* Floating point.  The code computes its geometry in doubles and          *)
(* truncates with int().  The model draws the padding fraction from the    *)
(* multiples of 1/2^PctBits and the height of the source files from the    *)
(* powers of two: on these inputs every quotient and product the code      *)
(* forms is a dyadic rational of a few bits, which a double holds exactly, *)
(* so the integer arithmetic below computes what the code computes.        *)
(***************************************************************************)
EXTENDS Integers, Sequences, FiniteSets

VARIABLES
    size,               \* self._size
    percentage,         \* self._percentage, as a numerator over PctDen
    image_paths,        \* __main__: the list of globbed paths
    idx,                \* __main__: position of the for loop in image_paths
    pc,                 \* the statement the program is about to execute
    opened,             \* what load_image read: the file's size and the height asked for
    image,              \* __main__: image (the resized photo)
    image_with_padding, \* perform_outpainting: the padded canvas, pasted into in place
    padded,             \* the canvas as _prepare_image built it (kept for comparison)
    left_image,         \* perform_outpainting: left tile (cut, later the generated one)
    right_image,        \* perform_outpainting: right tile
    left_reply,         \* what the left URL answers: "none", "image" or "error_body"
    right_reply,        \* what the right URL answers
    final_image,        \* perform_outpainting's result
    results,            \* the files of the result folder
    ops,                \* the stages executed so far: [image, op, ok]
    error               \* the stage whose exception ended the run, or "none"

vars == <<size, percentage, image_paths, idx, pc, opened, image,
          image_with_padding, padded, left_image, right_image,
          left_reply, right_reply, final_image, results, ops, error>>

-----------------------------------------------------------------------------
(* Bounds of the model. *)

MaxSrcWidth == 4        \* source files are 1..MaxSrcWidth pixels wide
MaxHeightExp == 2       \* and 2^0 .. 2^MaxHeightExp pixels high
MaxDesiredHeight == 2   \* desired_height ranges over 0..MaxDesiredHeight
MaxSize == 3            \* self._size ranges over 1..MaxSize
PctBits == 3            \* the padding fraction is a multiple of 1/2^PctBits
MaxPctNum == 4          \* ... between 0 and MaxPctNum/2^PctBits
MaxImages == 2          \* the folder holds up to MaxImages *.jpg files

RECURSIVE Pow2(_)
Pow2(n) == IF n = 0 THEN 1 ELSE 2 * Pow2(n - 1)

PctDen == Pow2(PctBits)
SrcHeights == {Pow2(k) : k \in 0..MaxHeightExp}

-----------------------------------------------------------------------------
(* Images. *)

NoImage == [width |-> 0, height |-> 0, mode |-> "none", px |-> <<>>]
NoFile == [width |-> 0, height |-> 0, desired_height |-> 0]

\* The pixel (0, 0, 0, 0): the fill of Image.new and of a crop outside the image.
Clear == [tag |-> "clear", x |-> 0, y |-> 0, a |-> 0]

Coords(w, h) == (0..(w - 1)) \X (0..(h - 1))

\* An image all of whose pixels come from `tag`, with alpha bit `a`.
Picture(tag, mode, w, h, a) ==
    [width |-> w, height |-> h, mode |-> mode,
     px |-> [c \in Coords(w, h) |-> [tag |-> tag, x |-> c[1], y |-> c[2], a |-> a]]]

\* The pictures a file or a download decodes to: without an alpha channel,
\* or with one and then not opaque.
Kinds == {<<"RGB", 1>>, <<"RGBA", 0>>}

\* Python's int() of the non-negative quotient num/den: truncation.
int(num, den) == num \div den

\* Python's round() of the non-negative quotient num/den: to the nearest
\* integer, a tie to the even one.
round(num, den) ==
    LET q == num \div den
        r == num % den
    IN  IF 2 * r < den THEN q
        ELSE IF 2 * r > den THEN q + 1
        ELSE IF q % 2 = 0 THEN q ELSE q + 1

\* Image.convert: to "RGB" the alpha channel is dropped (every pixel opaque),
\* to "RGBA" an image without alpha gets a full one.
Convert(im, mode) ==
    [im EXCEPT !.mode = mode,
               !.px = [c \in DOMAIN im.px |->
                         IF mode = "RGB" \/ im.mode = "RGB"
                         THEN [im.px[c] EXCEPT !.a = 1]
                         ELSE im.px[c]]]

\* Image.crop((x0, y0, x1, y1)): the result is x1-x0 by y1-y0 whatever the
\* image's size; what lies outside the image is (0, 0, 0, 0).
Crop(im, x0, y0, x1, y1) ==
    [width |-> x1 - x0, height |-> y1 - y0, mode |-> im.mode,
     px |-> [c \in Coords(x1 - x0, y1 - y0) |->
               IF <<c[1] + x0, c[2] + y0>> \in DOMAIN im.px
               THEN im.px[<<c[1] + x0, c[2] + y0>>]
               ELSE Clear]]

\* Image.paste(src, (x0, y0)) without a mask: src, converted to the canvas's
\* mode, replaces the pixels under it (alpha included, nothing is blended);
\* the part of src outside the canvas is clipped.
Paste(canvas, src, x0, y0) ==
    LET s == Convert(src, canvas.mode)
    IN  [canvas EXCEPT !.px = [c \in DOMAIN canvas.px |->
                                 IF <<c[1] - x0, c[2] - y0>> \in DOMAIN s.px
                                 THEN s.px[<<c[1] - x0, c[2] - y0>>]
                                 ELSE canvas.px[c]]]

\* Image.resize((w, h)): a resampled picture of the same mode and opacity.
Resize(im, w, h) ==
    Picture("src", im.mode, w, h, IF \E c \in DOMAIN im.px : im.px[c].a = 0 THEN 0 ELSE 1)

-----------------------------------------------------------------------------
(* OpenAIOutpainting. *)

\* _resize_image_with_proportions(image, height=height), the call load_image
\* makes (width is None): the third branch when height is truthy, no resize
\* at all when it is 0.
\* A resize that rounds the width to the nearest pixel instead of truncating.
ResizedWidthRounded(im, height) == round(im.width * height, im.height)

ResizedWidth(im, height) == int(im.width * height, im.height)

_resize_image_with_proportions(im, height) ==
    IF height # 0 THEN Resize(im, ResizedWidth(im, height), height) ELSE im

\* Image.resize raises ValueError unless both sides are positive.
ResizeRaises(im, height) == height # 0 /\ ResizedWidth(im, height) < 1

\* _prepare_image: factor = 1 + percentage * 2; the canvas is
\* int(width * factor) wide and the photo is pasted int(width * percentage)
\* from its left edge.
\* A canvas whose width is rounded to the nearest pixel instead of truncated.
PaddedWidthRounded(w, pct) == round(w * (PctDen + 2 * pct), PctDen)

PaddedWidth(w, pct) == int(w * (PctDen + 2 * pct), PctDen)
PasteOffset(w, pct) == int(w * pct, PctDen)

_prepare_image(im, pct) ==
    LET rgba == Convert(im, "RGBA")
        new_image == [width |-> PaddedWidth(rgba.width, pct), height |-> rgba.height,
                      mode |-> "RGBA",
                      px |-> [c \in Coords(PaddedWidth(rgba.width, pct), rgba.height)
                                |-> Clear]]
    IN  Paste(new_image, rgba, PasteOffset(rgba.width, pct), 0)

\* _split_image(image, size=(sz, sz)).
HalfWidth(im, sz) == im.width - sz

_split_image(im, sz) ==
    <<Crop(im, 0, 0, sz, sz), Crop(im, HalfWidth(im, sz), 0, im.width, sz)>>

\* _combine_images: both tiles are pasted into original_image itself.
\* A right tile pasted one column off the place it was cut from.
WidthRightStartOffByOne(im, sz) == im.width - sz + 1

WidthRightStart(im, sz) == im.width - sz

\* A compositor that pastes the left tile last.
_combine_images_left_last(original_image, left, right, sz) ==
    Paste(Paste(original_image, right, WidthRightStart(original_image, sz), 0), left, 0, 0)

\* A compositor that forgets the right tile.
_combine_images_left_only(original_image, left, right, sz) ==
    Paste(original_image, left, 0, 0)

_combine_images(original_image, left, right, sz) ==
    Paste(Paste(original_image, left, 0, 0), right, WidthRightStart(original_image, sz), 0)

\* perform_outpainting, line 115: final_image.convert("RGB").
\* A result returned as composited, alpha channel and all.
FlattenSkipped(canvas) == canvas

Flatten(canvas) == Convert(canvas, "RGB")

-----------------------------------------------------------------------------
(* __main__ and the files. *)

File(stem, suffix) == [stem |-> stem, suffix |-> suffix]

\* The image folder: n photos and a file that is not a .jpg.
Folder(n) == {File(i, ".jpg") : i \in 1..n} \cup {File(0, ".png")}

\* image_folder.glob("*.jpg"), listed by stem.
RECURSIVE Listed(_)
Listed(files) ==
    IF files = {} THEN <<>>
    ELSE LET f == CHOOSE g \in files : \A o \in files : g.stem <= o.stem
         IN  <<f>> \o Listed(files \ {f})

Glob(folder) == Listed({f \in folder : f.suffix = ".jpg"})

\* Every result saved under one name.
ResultPathFixed(image_path) == File(0, ".jpg")

\* result_folder / f"{image_path.stem}.jpg"
ResultPath(image_path) == File(image_path.stem, ".jpg")

\* A file of the result folder, complete or cut short.
Written(image_path, complete) == [path |-> ResultPath(image_path), complete |-> complete]

\* The stages of one image, in the order the code runs them.
Stages == <<"load", "prepare", "split", "edit_left", "edit_right", "fetch_left",
            "fetch_right", "open_left", "open_right", "combine", "convert", "save">>

Logged(seq) == ops' = ops \o [i \in 1..Len(seq) |->
                                 [image |-> idx, op |-> seq[i][1], ok |-> seq[i][2]]]

\* An exception caught and dropped in the loop, which goes on to save.
RaiseSwallowed(stage) == pc' = "save" /\ error' = error

\* An exception nobody catches: it leaves perform_outpainting and the for
\* loop, and the program ends.
Raise(stage) == pc' = "raised" /\ error' = stage

Goto(label) == pc' = label /\ error' = error

-----------------------------------------------------------------------------
(* The state after OpenAIOutpainting(size, percentage) and the glob. *)

Init ==
    /\ size \in 1..MaxSize
    /\ percentage \in 0..MaxPctNum
    /\ image_paths \in {Glob(Folder(n)) : n \in 0..MaxImages}
    /\ idx = 1
    /\ pc = "load"
    /\ opened = NoFile
    /\ image = NoImage
    /\ image_with_padding = NoImage
    /\ padded = NoImage
    /\ left_image = NoImage
    /\ right_image = NoImage
    /\ left_reply = "none"
    /\ right_reply = "none"
    /\ final_image = NoImage
    /\ results = {}
    /\ ops = <<>>
    /\ error = "none"

\* Line 134: load_image(image_path, desired_height); __main__ passes its
\* size, the method takes any height.  The file is missing or
\* no image (Image.open raises), or it decodes to some picture, which is
\* resized; Image.resize raises when the computed width is 0.
LoadImage ==
    /\ pc = "load"
    /\ idx <= Len(image_paths)
    /\ \E readable \in BOOLEAN, w \in 1..MaxSrcWidth, h \in SrcHeights,
          kind \in Kinds,
          desired_height \in 0..MaxDesiredHeight :
          LET file == Picture("src", kind[1], w, h, kind[2])
          IN  IF readable /\ ~ResizeRaises(file, desired_height)
              THEN /\ image' = _resize_image_with_proportions(file, desired_height)
                   /\ opened' = [width |-> w, height |-> h,
                                 desired_height |-> desired_height]
                   /\ Logged(<<<<"load", TRUE>>>>)
                   /\ Goto("prepare")
              ELSE /\ UNCHANGED <<image, opened>>
                   /\ Logged(<<<<"load", FALSE>>>>)
                   /\ Raise("load")
    /\ UNCHANGED <<size, percentage, image_paths, idx, image_with_padding, padded,
                   left_image, right_image, left_reply, right_reply, final_image,
                   results>>

\* Lines 100-104: _prepare_image, then _split_image.  Neither checks anything.
PrepareAndSplit ==
    /\ pc = "prepare"
    /\ LET canvas == _prepare_image(image, percentage)
           tiles == _split_image(canvas, size)
       IN  /\ image_with_padding' = canvas
           /\ padded' = canvas
           /\ left_image' = tiles[1]
           /\ right_image' = tiles[2]
    /\ opened' = NoFile
    /\ Logged(<<<<"prepare", TRUE>>, <<"split", TRUE>>>>)
    /\ Goto("edit_left")
    /\ UNCHANGED <<size, percentage, image_paths, idx, image, left_reply, right_reply,
                   final_image, results>>

\* Lines 106 and 107: _outpaint_image.  The service answers with a URL or the
\* client raises.
Edit(here, next) ==
    /\ pc = here
    /\ \E ok \in BOOLEAN :
          /\ Logged(<<<<here, ok>>>>)
          /\ IF ok THEN Goto(next) ELSE Raise(here)
    /\ UNCHANGED <<size, percentage, image_paths, idx, opened, image, image_with_padding,
                   padded, left_image, right_image, left_reply, right_reply,
                   final_image, results>>

EditLeft == Edit("edit_left", "edit_right")

EditRight == Edit("edit_right", "fetch_left")

\* Lines 109 and 110: requests.get(url).content.  get raises when the URL
\* cannot be reached; any answer, a 200 with the picture or an error status
\* with an error document, is returned and its body taken: nothing looks at
\* the status.
Replies == {"image", "error_body", "unreachable"}

FetchLeft ==
    /\ pc = "fetch_left"
    /\ \E reply \in Replies :
          /\ Logged(<<<<"fetch_left", reply = "image">>>>)
          /\ IF reply = "unreachable"
             THEN Raise("fetch_left") /\ UNCHANGED left_reply
             ELSE Goto("fetch_right") /\ left_reply' = reply
    /\ UNCHANGED <<size, percentage, image_paths, idx, opened, image, image_with_padding,
                   padded, left_image, right_image, right_reply, final_image, results>>

FetchRight ==
    /\ pc = "fetch_right"
    /\ \E reply \in Replies :
          /\ Logged(<<<<"fetch_right", reply = "image">>>>)
          /\ IF reply = "unreachable"
             THEN Raise("fetch_right") /\ UNCHANGED right_reply
             ELSE Goto("open_left") /\ right_reply' = reply
    /\ UNCHANGED <<size, percentage, image_paths, idx, opened, image, image_with_padding,
                   padded, left_image, right_image, left_reply, final_image, results>>

\* What the service generates for a size x size request: a picture of that
\* size, of either kind.
Generated(tag, sz) == {Picture(tag, kind[1], sz, sz, kind[2]) : kind \in Kinds}

\* Lines 111 and 112: Image.open(BytesIO(bytes)) raises on bytes that are no
\* image: an error document always, a download now and then (a damaged one).
OpenLeft ==
    /\ pc = "open_left"
    /\ \/ /\ left_reply = "image"
          /\ \E tile \in Generated("left", size) : left_image' = tile
          /\ Logged(<<<<"open_left", TRUE>>>>)
          /\ Goto("open_right")
       \/ /\ left_reply \in {"error_body", "image"}
          /\ UNCHANGED left_image
          /\ Logged(<<<<"open_left", FALSE>>>>)
          /\ Raise("open_left")
    /\ UNCHANGED <<size, percentage, image_paths, idx, opened, image, image_with_padding,
                   padded, right_image, left_reply, right_reply, final_image, results>>

OpenRight ==
    /\ pc = "open_right"
    /\ \/ /\ right_reply = "image"
          /\ \E tile \in Generated("right", size) : right_image' = tile
          /\ Logged(<<<<"open_right", TRUE>>>>)
          /\ Goto("combine")
       \/ /\ right_reply \in {"error_body", "image"}
          /\ UNCHANGED right_image
          /\ Logged(<<<<"open_right", FALSE>>>>)
          /\ Raise("open_right")
    /\ UNCHANGED <<size, percentage, image_paths, idx, opened, image, image_with_padding,
                   padded, left_image, left_reply, right_reply, final_image, results>>

\* Line 114: _combine_images pastes into image_with_padding itself.
Combine ==
    /\ pc = "combine"
    /\ image_with_padding' =
          _combine_images(image_with_padding, left_image, right_image, size)
    /\ Logged(<<<<"combine", TRUE>>>>)
    /\ Goto("convert")
    /\ UNCHANGED <<size, percentage, image_paths, idx, opened, image, padded, left_image,
                   right_image, left_reply, right_reply, final_image, results>>

\* Lines 115-117.
ConvertRGB ==
    /\ pc = "convert"
    /\ final_image' = Flatten(image_with_padding)
    /\ Logged(<<<<"convert", TRUE>>>>)
    /\ Goto("save")
    /\ UNCHANGED <<size, percentage, image_paths, idx, opened, image, image_with_padding,
                   padded, left_image, right_image, left_reply, right_reply, results>>

\* Line 139: final_image.save(...), then the loop goes on to the next path.
\* The values of the finished iteration are read by no later statement and
\* are dropped here.  A save that raises ends the program; whether the file
\* it had begun is left behind depends on the imaging library.
Save ==
    /\ pc = "save"
    /\ \E ok \in BOOLEAN :
          /\ Logged(<<<<"save", ok>>>>)
          /\ IF ok
             THEN /\ results' = results \cup {Written(image_paths[idx], TRUE)}
                  /\ idx' = idx + 1
                  /\ Goto("load")
                  /\ image' = NoImage
                  /\ image_with_padding' = NoImage
                  /\ padded' = NoImage
                  /\ left_image' = NoImage
                  /\ right_image' = NoImage
                  /\ left_reply' = "none"
                  /\ right_reply' = "none"
                  /\ final_image' = NoImage
             ELSE /\ Raise("save")
                  /\ \E partial \in BOOLEAN :
                        results' = IF partial
                                   THEN results \cup {Written(image_paths[idx], FALSE)}
                                   ELSE results
                  /\ UNCHANGED <<idx, image, image_with_padding, padded, left_image,
                                 right_image, left_reply, right_reply, final_image>>
    /\ UNCHANGED <<size, percentage, image_paths, opened>>

\* The for loop has no path left.
Finish ==
    /\ pc = "load"
    /\ idx > Len(image_paths)
    /\ Goto("done")
    /\ UNCHANGED <<size, percentage, image_paths, idx, opened, image, image_with_padding,
                   padded, left_image, right_image, left_reply, right_reply, final_image,
                   results, ops>>

Next ==
    \/ LoadImage
    \/ PrepareAndSplit
    \/ EditLeft
    \/ EditRight
    \/ FetchLeft
    \/ FetchRight
    \/ OpenLeft
    \/ OpenRight
    \/ Combine
    \/ ConvertRGB
    \/ Save
    \/ Finish

Spec == Init /\ [][Next]_vars

-----------------------------------------------------------------------------
(* The properties. *)

\* The tiles are still the ones _split_image cut (lines 102-110).
TilesAreCuts ==
    \/ pc \in {"edit_left", "edit_right", "fetch_left", "fetch_right", "open_left"}
    \/ pc = "raised" /\ error \in {"edit_left", "edit_right", "fetch_left",
                                   "fetch_right", "open_left"}

\* _combine_images has run on the canvas of the current image.
Composited == pc \in {"convert", "save"} \/ (pc = "raised" /\ error = "save")

PaddedW == image_with_padding.width

InLeftWindow(c) == c[1] \in 0..(size - 1) /\ c[2] \in 0..(size - 1)
InRightWindow(c) == c[1] \in (PaddedW - size)..(PaddedW - 1) /\ c[2] \in 0..(size - 1)

CanvasAt(c) ==
    IF c \in DOMAIN image_with_padding.px THEN image_with_padding.px[c] ELSE Clear

\* C1: the left tile is cut from columns [0, size) and the right tile from
\* columns [paddedWidth - size, paddedWidth); the generated tiles are pasted
\* at (0, 0) and (paddedWidth - size, 0), the offsets they were cut at; and
\* after compositing every pixel of the canvas outside the two windows is
\* the pixel the padded canvas had there.
C1_TilesLandWhereCut ==
    /\ TilesAreCuts =>
          \A t \in Coords(size, size) :
             /\ left_image.px[t] = CanvasAt(t)
             /\ right_image.px[t] = CanvasAt(<<PaddedW - size + t[1], t[2]>>)
    /\ Composited =>
          \A c \in DOMAIN image_with_padding.px :
             /\ InRightWindow(c) =>
                   image_with_padding.px[c] = right_image.px[<<c[1] - (PaddedW - size), c[2]>>]
             /\ InLeftWindow(c) /\ ~InRightWindow(c) =>
                   image_with_padding.px[c] = left_image.px[c]
             /\ ~InLeftWindow(c) /\ ~InRightWindow(c) =>
                   image_with_padding.px[c] = padded.px[c]

\* A composited canvas with a pixel of the photo outside both windows and a
\* generated pixel in each.
C1_Witness ==
    /\ pc = "convert"
    /\ \E c \in DOMAIN image_with_padding.px :
          ~InLeftWindow(c) /\ ~InRightWindow(c) /\ padded.px[c].tag = "src"
    /\ \E c \in DOMAIN image_with_padding.px : image_with_padding.px[c].tag = "left"
    /\ \E c \in DOMAIN image_with_padding.px : image_with_padding.px[c].tag = "right"

\* C2 as stated: the padded canvas is round(width * (1 + 2 * percentage))
\* wide and as high as the resized photo.
C2_PaddedWidthRounded ==
    image_with_padding # NoImage =>
       /\ PaddedW = round(image.width * (PctDen + 2 * percentage), PctDen)
       /\ image_with_padding.height = image.height

\* C2, amended: the padded canvas is width * (1 + 2 * percentage) truncated
\* to an integer wide, that is the largest integer not above the product,
\* and as high as the resized photo.
C2_PaddedWidthTruncated ==
    image_with_padding # NoImage =>
       /\ PaddedW * PctDen <= image.width * (PctDen + 2 * percentage)
       /\ image.width * (PctDen + 2 * percentage) < (PaddedW + 1) * PctDen
       /\ image_with_padding.height = image.height

\* A padded canvas whose exact width has a fraction above one half.
C2_Witness ==
    /\ image_with_padding # NoImage
    /\ 2 * ((image.width * (PctDen + 2 * percentage)) % PctDen) > PctDen

\* C5 as stated, for the target heights other than 0: load_image returns an
\* image as high as asked and round(originalWidth * targetHeight /
\* originalHeight) wide.
C5_ResizedWidthRounded ==
    opened # NoFile /\ opened.desired_height # 0 =>
       /\ image.height = opened.desired_height
       /\ image.width = round(opened.width * opened.desired_height, opened.height)

\* C5, amended: for a target height other than 0, an image load_image
\* returns is as high as asked and originalWidth * targetHeight /
\* originalHeight truncated to an integer wide, that is the largest integer
\* not above the quotient.
C5_ResizedWidthTruncated ==
    opened # NoFile /\ opened.desired_height # 0 =>
       /\ image.height = opened.desired_height
       /\ image.width * opened.height <= opened.width * opened.desired_height
       /\ opened.width * opened.desired_height < (image.width + 1) * opened.height

\* A returned image whose exact width lies half way between two integers,
\* the lower one odd: every rounding rule gives the upper one.
C5_Witness ==
    /\ opened # NoFile
    /\ opened.desired_height # 0
    /\ 2 * ((opened.width * opened.desired_height) % opened.height) = opened.height
    /\ ((opened.width * opened.desired_height) \div opened.height) % 2 = 1

\* C6: an image perform_outpainting returns is in mode RGB and has no
\* transparent pixel, whatever the mode of the photo and of the tiles.
C6_OutputOpaqueRGB ==
    final_image # NoImage =>
       /\ final_image.mode = "RGB"
       /\ \A c \in DOMAIN final_image.px : final_image.px[c].a = 1

\* A result made from a photo and tiles with alpha, the composited canvas
\* still holding transparent pixels.
C6_Witness ==
    /\ final_image # NoImage
    /\ image.mode = "RGBA"
    /\ left_image.mode = "RGBA"
    /\ right_image.mode = "RGBA"
    /\ \E c \in DOMAIN image_with_padding.px : image_with_padding.px[c].a = 0

\* The calls to the service, the downloads and the composite of image i, in
\* the order they were issued.
ExternalOrder == <<"edit_left", "edit_right", "fetch_left", "fetch_right", "combine">>

Issued(i) ==
    SelectSeq(ops, LAMBDA o : o.image = i /\ \E k \in DOMAIN ExternalOrder : o.op = ExternalOrder[k])

\* C3 as stated: a padded canvas no wider than the tile ends
\* perform_outpainting in a GeometryError before any call to the service or
\* download, and whenever an edit call has been issued both windows lie
\* within [0, paddedWidth).
C3_GeometryChecked ==
    /\ (image_with_padding # NoImage /\ PaddedW <= size) =>
          (pc = "raised" /\ error = "GeometryError" /\ Issued(idx) = <<>>)
    /\ (image_with_padding # NoImage /\ Issued(idx) # <<>>) =>
          (0 <= HalfWidth(image_with_padding, size) /\ size <= PaddedW)

\* C4: a file exists in the result folder for an image only if every stage
\* before the save succeeded for it; after a failed stage (an unreachable
\* URL, say) there is no file for it, complete or partial.
C4_OutputOnlyAfterAllStages ==
    \A i \in 1..Len(image_paths) :
       (\E f \in results : f.path.stem = image_paths[i].stem) =>
          /\ \A k \in 1..(Len(Stages) - 1) :
                \E j \in DOMAIN ops : ops[j] = [image |-> i, op |-> Stages[k], ok |-> TRUE]
          /\ ~\E j \in DOMAIN ops : ops[j].image = i /\ ops[j].op # "save" /\ ~ops[j].ok

\* The first image is written, the second one's left URL was unreachable and
\* nothing is written for it.
C4_Witness ==
    /\ pc = "raised"
    /\ error = "fetch_left"
    /\ idx = 2
    /\ results = {Written(image_paths[1], TRUE)}

\* C7: the load of image k+1 comes after the save of image k, whose file,
\* named by its stem with the suffix .jpg, is complete by then; a run that
\* ends without an exception has written exactly one file per input.
C7_OneImageAtATime ==
    /\ \A j \in DOMAIN ops :
          (ops[j].op = "load" /\ ops[j].image > 1) =>
             /\ \E i \in 1..(j - 1) :
                   ops[i] = [image |-> ops[j].image - 1, op |-> "save", ok |-> TRUE]
             /\ [path |-> [stem |-> image_paths[ops[j].image - 1].stem, suffix |-> ".jpg"],
                 complete |-> TRUE] \in results
    /\ pc = "done" =>
          /\ Cardinality(results) = Len(image_paths)
          /\ \A i \in 1..Len(image_paths) :
                [path |-> [stem |-> image_paths[i].stem, suffix |-> ".jpg"],
                 complete |-> TRUE] \in results

\* A finished run over at least two photos.
C7_Witness == pc = "done" /\ Len(image_paths) >= 2

\* C8 as stated: the calls of one image are issued in the order edit(left),
\* edit(right), fetch(left), fetch(right), composite, each at most once, and
\* nothing is issued after one that failed.
C8_FirstFailureAborts ==
    \A i \in 1..Len(image_paths) :
       LET s == Issued(i)
       IN  /\ Len(s) <= Len(ExternalOrder)
           /\ \A k \in 1..Len(s) :
                 /\ s[k].op = ExternalOrder[k]
                 /\ ~s[k].ok => k = Len(s)

TilesOpaque ==
    /\ \A c \in DOMAIN left_image.px : left_image.px[c].a = 1
    /\ \A c \in DOMAIN right_image.px : right_image.px[c].a = 1

PhotoOpaque == \A c \in DOMAIN image.px : image.px[c].a = 1

\* The transparent margins _prepare_image left beside the photo.
LeftMargin == PasteOffset(image.width, percentage)
RightMargin == PaddedW - LeftMargin - image.width
InMargin(c) == c[1] < LeftMargin \/ c[1] >= LeftMargin + image.width

\* C9 as stated, for photos without transparency: with paddedWidth > size
\* and opaque size x size tiles, both margins and all rows of the canvas lie
\* inside the two windows and no transparent pixel is left after
\* compositing.
C9_NoTransparencyLeft ==
    (Composited /\ PaddedW > size /\ TilesOpaque /\ PhotoOpaque) =>
       \A c \in DOMAIN image_with_padding.px :
          /\ InMargin(c) => InLeftWindow(c) \/ InRightWindow(c)
          /\ image_with_padding.px[c].a = 1

\* C9, amended: with paddedWidth > size, opaque size x size tiles, a canvas
\* at most size high and margins at most size wide, both margins lie inside
\* the two windows and are opaque after compositing; the canvas then has no
\* transparent pixel if the photo had none.
C9_NoTransparencyLeftWhenCovered ==
    (/\ Composited /\ PaddedW > size /\ TilesOpaque
     /\ image_with_padding.height <= size
     /\ LeftMargin <= size /\ RightMargin <= size) =>
       /\ \A c \in DOMAIN image_with_padding.px :
             InMargin(c) => /\ InLeftWindow(c) \/ InRightWindow(c)
                            /\ image_with_padding.px[c].a = 1
       /\ PhotoOpaque => \A c \in DOMAIN image_with_padding.px : image_with_padding.px[c].a = 1

\* A composited canvas with a margin on each side, covered by opaque tiles
\* that leave part of the photo in between.
C9_Witness ==
    /\ pc = "convert" /\ PaddedW > size /\ TilesOpaque /\ PhotoOpaque
    /\ image_with_padding.height <= size
    /\ 1 <= LeftMargin /\ LeftMargin <= size
    /\ 1 <= RightMargin /\ RightMargin <= size
    /\ \E c \in DOMAIN image_with_padding.px : image_with_padding.px[c].tag = "src"

LeftColumns == 0..(size - 1)
RightColumns == HalfWidth(image_with_padding, size)..(PaddedW - 1)

\* C10: the windows are disjoint exactly when paddedWidth >= 2 * size; for
\* size < paddedWidth < 2 * size they share the columns
\* [paddedWidth - size, size), where the two tiles cut hold the same pixels
\* of the canvas and where the composited canvas holds the pixels of the
\* generated right tile.
C10_OverlapGoesToRightTile ==
    image_with_padding # NoImage =>
       /\ (LeftColumns \cap RightColumns = {}) <=> (PaddedW >= 2 * size)
       /\ (size < PaddedW /\ PaddedW < 2 * size) =>
             /\ LeftColumns \cap RightColumns = (PaddedW - size)..(size - 1)
             /\ TilesAreCuts =>
                   \A x \in LeftColumns \cap RightColumns, y \in 0..(size - 1) :
                      left_image.px[<<x, y>>] = right_image.px[<<x - (PaddedW - size), y>>]
             /\ Composited =>
                   \A x \in LeftColumns \cap RightColumns, y \in 0..(size - 1) :
                      <<x, y>> \in DOMAIN image_with_padding.px =>
                         /\ image_with_padding.px[<<x, y>>].tag = "right"
                         /\ image_with_padding.px[<<x, y>>] =
                               right_image.px[<<x - (PaddedW - size), y>>]

\* A composited canvas whose windows overlap without coinciding.
C10_Witness ==
    /\ pc = "convert"
    /\ size < PaddedW /\ PaddedW < 2 * size
    /\ \E c \in DOMAIN image_with_padding.px : image_with_padding.px[c].tag = "left"

=============================================================================
